---- MODULE Spec2Model ----
(***************************************************************************)
(* gpx2js: the track-processing pipeline of src/main.rs.                   *)
(*   read_files -> round_values -> remove_duplicates ->                    *)
(*   remove_files_without_new_points -> remove_straight_line_points ->     *)
(*   output_result_files                                                   *)
(*                                                                         *)
(* An f64 coordinate is a sign and a magnitude, the magnitude counted in   *)
(* units of 10^-FracDigits degrees: the sign is kept apart because the     *)
(* code tells -0.0 from 0.0 when it formats a value (to_string) but not    *)
(* when it compares two values (==).  Every value the program holds is the *)
(* f64 nearest to such a decimal (parse::<f64> and the division that ends  *)
(* round_val are correctly rounded), so a decimal names one f64.           *)
(*                                                                         *)
(* The f64 operations themselves are not decimal.  round_val and in_line   *)
(* compute on the f64 values: a sign, a mantissa of 53 bits and a binary   *)
(* exponent, every operation rounded to the nearest value, ties to even.   *)
(***************************************************************************)
EXTENDS Integers, Sequences, FiniteSets, TLC

VARIABLES
    dir,              \* the input directory: the entries fs::read_dir yields, in order
    read_dir_ok,      \* FALSE: fs::read_dir fails on the input directory
    overflow_checks,  \* the build: TRUE = arithmetic overflow panics (debug profile)
    pc,               \* position of main(): the stage that runs next
    next_path,        \* read_files: index of the directory entry read next
    parsed_files,     \* Vec<CoordsFile>
    file_idx,         \* remove_straight_line_points / output_result_files: file handled next
    out_files,        \* the files output_result_files has written to their end
    panic_stage,      \* "" or the stage whose unwrap / overflow check panicked
    hist              \* parsed_files as each stage returned it (history)

\* what a run is given and never changes
env == <<dir, read_dir_ok, overflow_checks>>

vars == <<env, pc, next_path, parsed_files, file_idx, out_files, panic_stage, hist>>

----------------------------------------------------------------------------
(* Bounds of the model *)

\* decimal digits kept by a modelled coordinate
FracDigits == 7

\* most points of the one track of the simplification inputs
MaxPts == 4

\* most files of the novelty-filter inputs
MaxFiles == 3

\* most files of the loader inputs
MaxLoadFiles == 2

----------------------------------------------------------------------------
(* Coordinates *)

RECURSIVE Pow10(_)
Pow10(n) == IF n = 0 THEN 1 ELSE 10 * Pow10(n - 1)

F(neg, mag) == [neg |-> neg, mag |-> mag]

\* the number a coordinate stands for, in units of 10^-FracDigits
Num(v) == IF v.neg THEN 0 - v.mag ELSE v.mag

\* f64 ==
FEq(a, b) == Num(a) = Num(b)

\* #[derive(PartialEq)] struct LatLng
LatLngEq(p, q) == FEq(p.lat, q.lat) /\ FEq(p.lng, q.lng)

\* f64::to_string: the sign is printed, also for -0.0
to_string(v) == [sign |-> IF v.neg THEN "-" ELSE "", digits |-> v.mag]

(* Natural numbers of any size: limbs of 15 bits, the lowest first, no    *)
(* zero limb at the top.                                                  *)

RECURSIVE Norm(_)
Norm(x) ==
    IF x # <<>> /\ x[Len(x)] = 0 THEN Norm(SubSeq(x, 1, Len(x) - 1)) ELSE x

\* a number below 2^31
NatOf(n) == Norm(<<n % 32768, (n \div 32768) % 32768, n \div 1073741824>>)

\* back to a number, for a value below 2^31
IntOf(x) ==
    LET limb(k) == IF k <= Len(x) THEN x[k] ELSE 0
    IN  limb(1) + 32768 * limb(2) + 1073741824 * limb(3)

RECURSIVE AddC(_, _, _)
AddC(x, y, carry) ==
    IF x = <<>> /\ y = <<>> THEN (IF carry = 0 THEN <<>> ELSE <<carry>>)
    ELSE LET a == IF x = <<>> THEN 0 ELSE Head(x)
             b == IF y = <<>> THEN 0 ELSE Head(y)
             sum == a + b + carry
         IN  <<sum % 32768>>
                 \o AddC(IF x = <<>> THEN <<>> ELSE Tail(x),
                         IF y = <<>> THEN <<>> ELSE Tail(y),
                         sum \div 32768)

AddN(x, y) == AddC(x, y, 0)

RECURSIVE SubB(_, _, _)
SubB(x, y, borrow) ==
    IF x = <<>> THEN <<>>
    ELSE LET d == Head(x) - (IF y = <<>> THEN 0 ELSE Head(y)) - borrow
         IN  <<(d + 32768) % 32768>>
                 \o SubB(Tail(x), IF y = <<>> THEN <<>> ELSE Tail(y),
                         IF d < 0 THEN 1 ELSE 0)

\* x - y, for x >= y
SubN(x, y) == Norm(SubB(x, y, 0))

RECURSIVE LessN(_, _)
LessN(x, y) ==
    IF Len(x) # Len(y) THEN Len(x) < Len(y)
    ELSE IF x = <<>> THEN FALSE
    ELSE IF x[Len(x)] # y[Len(y)] THEN x[Len(x)] < y[Len(y)]
    ELSE LessN(SubSeq(x, 1, Len(x) - 1), SubSeq(y, 1, Len(y) - 1))

\* x * s + carry, for one limb s
RECURSIVE MulC(_, _, _)
MulC(x, s, carry) ==
    IF x = <<>> THEN (IF carry = 0 THEN <<>> ELSE <<carry>>)
    ELSE LET p == Head(x) * s + carry
         IN  <<p % 32768>> \o MulC(Tail(x), s, p \div 32768)

RECURSIVE MulL(_, _)
MulL(x, y) ==
    IF y = <<>> THEN <<>>
    ELSE AddN(MulC(x, Head(y), 0), <<0>> \o MulL(x, Tail(y)))

MulN(x, y) == Norm(MulL(x, y))

\* quotient and remainder of x by one limb s
RECURSIVE DivR(_, _)
DivR(x, s) ==
    IF x = <<>> THEN [q |-> <<>>, r |-> 0]
    ELSE LET hi == DivR(Tail(x), s)
             cur == hi.r * 32768 + Head(x)
         IN  [q |-> <<cur \div s>> \o hi.q, r |-> cur % s]

\* x * 2^n
ShiftLeft(x, n) ==
    Norm(MulC([j \in 1..(n \div 15) |-> 0] \o x, 2 ^ (n % 15), 0))

\* x \div 2^n, and whether a bit was lost
ShiftRight(x, n) ==
    LET k == IF n \div 15 < Len(x) THEN n \div 15 ELSE Len(x)
        d == DivR(SubSeq(x, k + 1, Len(x)), 2 ^ (n % 15))
    IN  [q |-> Norm(d.q),
         sticky |-> d.r # 0 \/ \E j \in 1..k : x[j] # 0]

RECURSIVE Bits(_)
Bits(n) == IF n = 0 THEN 0 ELSE 1 + Bits(n \div 2)

BitLen(x) == IF x = <<>> THEN 0 ELSE 15 * (Len(x) - 1) + Bits(x[Len(x)])

Odd(x) == x # <<>> /\ x[1] % 2 = 1

(* f64 values: (-1)^neg * m * 2^e with m of exactly 53 bits, or m = <<>>   *)
(* for zero.  The values of the program are far from the subnormal range   *)
(* and from infinity.                                                      *)

\* the f64 nearest to (x + t) * 2^e, ties to even, where 0 < t < 1 if
\* sticky and t = 0 otherwise
F64Of(neg, x, e, sticky) ==
    LET len == BitLen(x)
    IN  IF x = <<>> THEN [neg |-> neg, m |-> <<>>, e |-> 0]
        ELSE IF len <= 53
        THEN [neg |-> neg, m |-> ShiftLeft(x, 53 - len), e |-> e - (53 - len)]
        ELSE LET n == len - 53
                 s == ShiftRight(x, n - 1)
                 q == ShiftRight(s.q, 1).q
                 up == Odd(s.q) /\ (s.sticky \/ sticky \/ Odd(q))
                 m == IF up THEN AddN(q, <<1>>) ELSE q
             IN  IF BitLen(m) = 54
                 THEN [neg |-> neg, m |-> ShiftRight(m, 1).q, e |-> e + n + 1]
                 ELSE [neg |-> neg, m |-> m, e |-> e + n]

\* the f64 nearest to mag / 10^k: what parse::<f64>() returns for a decimal
\* and what the division n / y returns for two whole numbers
DecToF64(mag, k) ==
    LET k1 == IF k < 4 THEN k ELSE 4
        d1 == DivR(ShiftLeft(NatOf(mag), 90), Pow10(k1))
        d2 == DivR(d1.q, Pow10(k - k1))
    IN  F64Of(FALSE, Norm(d2.q), -90, d1.r # 0 \/ d2.r # 0)

\* the f64 a coordinate of the model stands for
ToF64(v) == [DecToF64(v.mag, FracDigits) EXCEPT !.neg = v.neg]

\* x * y
MulF64(x, y) == F64Of(x.neg # y.neg, MulN(x.m, y.m), x.e + y.e, FALSE)

\* x + y.  A sum that is exactly zero is +0, unless both terms are -0.
AddF64(x, y) ==
    IF x.m = <<>> /\ y.m = <<>>
    THEN [neg |-> x.neg /\ y.neg, m |-> <<>>, e |-> 0]
    ELSE IF x.m = <<>> THEN y
    ELSE IF y.m = <<>> THEN x
    ELSE LET e == IF x.e < y.e THEN x.e ELSE y.e
             xm == ShiftLeft(x.m, x.e - e)
             ym == ShiftLeft(y.m, y.e - e)
         IN  IF x.neg = y.neg THEN F64Of(x.neg, AddN(xm, ym), e, FALSE)
             ELSE IF xm = ym THEN [neg |-> FALSE, m |-> <<>>, e |-> 0]
             ELSE IF LessN(xm, ym) THEN F64Of(y.neg, SubN(ym, xm), e, FALSE)
             ELSE F64Of(x.neg, SubN(xm, ym), e, FALSE)

\* x - y
SubF64(x, y) == AddF64(x, [y EXCEPT !.neg = ~y.neg])

\* x == y
EqF64(x, y) ==
    \/ x.m = <<>> /\ y.m = <<>>
    \/ x.neg = y.neg /\ x.m = y.m /\ x.e = y.e

\* the magnitude of x.round(): the nearest whole number, a half going away
\* from zero
RoundF64(x) ==
    IF x.m = <<>> \/ -x.e > 54 THEN 0
    ELSE IF x.e >= 0 THEN IntOf(ShiftLeft(x.m, x.e))
    ELSE LET s == ShiftRight(x.m, -x.e - 1)
         IN  IntOf(ShiftRight(s.q, 1).q) + (IF Odd(s.q) THEN 1 ELSE 0)

\* (value * y).round() / y with y = 10^digits as f64.  The quotient of the
\* whole number n by y is the f64 nearest to n / 10^digits: the coordinate
\* n * 10^(FracDigits - digits) of the model.
round_val(value, digits) ==
    LET y == F64Of(FALSE, NatOf(Pow10(digits)), 0, FALSE)
        n == RoundF64(MulF64(ToF64(value), y))
    IN  F(value.neg, n * Pow10(FracDigits - digits))

\* (a.lat - c.lat) * (c.lng - b.lng) == (c.lat - b.lat) * (a.lng - c.lng)
in_line(a, b, c) ==
    EqF64(MulF64(SubF64(ToF64(a.lat), ToF64(c.lat)),
                 SubF64(ToF64(c.lng), ToF64(b.lng))),
          MulF64(SubF64(ToF64(c.lat), ToF64(b.lat)),
                 SubF64(ToF64(a.lng), ToF64(c.lng))))

RemoveAt(s, k) == SubSeq(s, 1, k - 1) \o SubSeq(s, k + 1, Len(s))

----------------------------------------------------------------------------
(* read_files *)

\* both attributes are there: the point is parsed
HasBoth(pt) == pt.lat.kind # "absent" /\ pt.lon.kind # "absent"

\* parse::<f64>().unwrap() of an attribute that is no number
ParsePanics(pts) ==
    \E k \in 1..Len(pts) :
        HasBoth(pts[k]) /\ (pts[k].lat.kind = "bad" \/ pts[k].lon.kind = "bad")

ToLatLng(pt) == [lat |-> pt.lat.val, lng |-> pt.lon.val]

\* the loop over trk_seg.children(): every element with lat and lon is pushed
LoadCoords(pts) ==
    LET found == SelectSeq(pts, HasBoth)
    IN  [k \in 1..Len(found) |-> ToLatLng(found[k])]

\* treat hiking and walking as the same
NormalType(t) == IF t = "hiking" THEN "walking" ELSE t

\* the unwraps of one entry: the entry itself is an error (path.unwrap()),
\* a .gpx path that cannot be read as UTF-8 text (read_to_string: a
\* directory, no permission, another encoding), no trk, no type, type
\* without text, no trkseg, an attribute that does not parse
FilePanics(e) ==
    \/ e.shape \in {"entry_error", "unreadable", "no_trk", "no_type",
                    "no_type_text", "no_trkseg"}
    \/ e.shape = "ok" /\ ParsePanics(e.pts)

\* `continue`: not a .gpx path, or roxmltree refuses the text
FileSkipped(e) == e.shape \in {"not_gpx", "bad_xml"}

\* fs::read_dir(input_path).unwrap()
ReadDir ==
    /\ pc = "start"
    /\ IF read_dir_ok
       THEN pc' = "read" /\ UNCHANGED panic_stage
       ELSE pc' = "panic" /\ panic_stage' = "read"
    /\ UNCHANGED <<env, next_path, parsed_files, file_idx, out_files, hist>>

ReadFile ==
    /\ pc = "read"
    /\ next_path <= Len(dir)
    /\ LET e == dir[next_path]
       IN  IF FileSkipped(e)
           THEN /\ next_path' = next_path + 1
                /\ UNCHANGED <<parsed_files, pc, panic_stage>>
           ELSE IF FilePanics(e)
           THEN /\ pc' = "panic"
                /\ panic_stage' = "read"
                /\ UNCHANGED <<parsed_files, next_path>>
           ELSE /\ parsed_files' = Append(parsed_files,
                        [name |-> e.name,
                         trk_type |-> NormalType(e.trk_type),
                         coords |-> LoadCoords(e.pts)])
                /\ next_path' = next_path + 1
                /\ UNCHANGED <<pc, panic_stage>>
    /\ UNCHANGED <<env, file_idx, out_files, hist>>

ReadFilesReturn ==
    /\ pc = "read"
    /\ next_path > Len(dir)
    /\ pc' = "round"
    /\ hist' = [hist EXCEPT !.loaded = parsed_files]
    /\ UNCHANGED <<env, next_path, parsed_files, file_idx,
                   out_files, panic_stage>>

----------------------------------------------------------------------------
(* round_values *)

\* the longitude taken from the latitude
RoundCoordLatTwice(c) == [lat |-> round_val(c.lat, 6), lng |-> round_val(c.lat, 6)]

RoundCoord(c) == [lat |-> round_val(c.lat, 6), lng |-> round_val(c.lng, 6)]

RoundFile(file) ==
    [file EXCEPT !.coords = [k \in 1..Len(file.coords) |-> RoundCoord(file.coords[k])]]

round_values(files) == [f \in 1..Len(files) |-> RoundFile(files[f])]

RoundValues ==
    /\ pc = "round"
    /\ parsed_files' = round_values(parsed_files)
    /\ hist' = [hist EXCEPT !.rounded = parsed_files']
    /\ pc' = "dedup"
    /\ UNCHANGED <<env, next_path, file_idx, out_files, panic_stage>>

----------------------------------------------------------------------------
(* remove_duplicates *)

\* Vec::dedup: an element equal to the one kept before it is dropped
RECURSIVE dedup(_)
dedup(s) ==
    IF Len(s) < 2 THEN s
    ELSE LET r == dedup(SubSeq(s, 1, Len(s) - 1))
         IN  IF LatLngEq(r[Len(r)], s[Len(s)]) THEN r ELSE Append(r, s[Len(s)])

DedupFile(file) == [file EXCEPT !.coords = dedup(file.coords)]

remove_duplicates(files) == [f \in 1..Len(files) |-> DedupFile(files[f])]

RemoveDuplicates ==
    /\ pc = "dedup"
    /\ parsed_files' = remove_duplicates(parsed_files)
    /\ hist' = [hist EXCEPT !.deduped = parsed_files']
    /\ pc' = "filter"
    /\ UNCHANGED <<env, next_path, file_idx, out_files, panic_stage>>

----------------------------------------------------------------------------
(* remove_files_without_new_points *)

activity_types == <<"walking", "running", "cycling">>

KnownTypes == {activity_types[t] : t \in DOMAIN activity_types}

\* HashMap<String, HashSet<String>>: a function from latitude keys to sets
\* of longitude keys
EmptyMap == [k \in {} |-> {}]

\* one map for all the types
NewMapShared(previous) == previous

\* `let mut map = HashMap::new()` inside the loop over the types
NewMap(previous) == EmptyMap

\* the body of `for coord in &file.coords`: acc = [map, new_points]
CheckCoord(acc, coord) ==
    LET lat == to_string(round_val(coord.lat, 4))
        lng == to_string(round_val(coord.lng, 4))
    IN  IF lat \in DOMAIN acc.map
        THEN IF lng \in acc.map[lat]
             THEN acc
             ELSE [map |-> [acc.map EXCEPT ![lat] = @ \cup {lng}],
                   new_points |-> TRUE]
        ELSE [map |-> acc.map @@ (lat :> {lng}), new_points |-> TRUE]

\* `for coord in &file.coords`, from the k-th coordinate on
RECURSIVE CheckCoords(_, _, _)
CheckCoords(acc, coords, k) ==
    IF k > Len(coords) THEN acc
    ELSE CheckCoords(CheckCoord(acc, coords[k]), coords, k + 1)

\* parsed_files.iter_mut().for_each(..) for one type, from the f-th file on:
\* st = [map, remove_files]
RECURSIVE CheckFiles(_, _, _, _)
CheckFiles(st, files, atype, f) ==
    IF f > Len(files) THEN st
    ELSE IF files[f].trk_type = atype
    THEN LET r == CheckCoords([map |-> st.map, new_points |-> FALSE],
                              files[f].coords, 1)
         IN  CheckFiles(
                 [map |-> r.map,
                  remove_files |-> IF r.new_points THEN st.remove_files
                                   ELSE Append(st.remove_files, files[f].name)],
                 files, atype, f + 1)
    ELSE CheckFiles(st, files, atype, f + 1)

\* `for atype in activity_types`, from the t-th type on
RECURSIVE CheckTypes(_, _, _)
CheckTypes(st, files, t) ==
    IF t > Len(activity_types) THEN st.remove_files
    ELSE CheckTypes(
             CheckFiles([map |-> NewMap(st.map), remove_files |-> st.remove_files],
                        files, activity_types[t], 1),
             files, t + 1)

\* "Remove all other": the names of the files of no known type, in order
UnknownType(file) == file.trk_type \notin KnownTypes

FileNames(files) == [f \in 1..Len(files) |-> files[f].name]

OtherFiles(files) == FileNames(SelectSeq(files, UnknownType))

\* parsed_files.iter().position(|value| *value.name == remove_file); 0 stands
\* for None, which the names of a directory, being distinct, never produce
Position(files, name) ==
    IF \E k \in 1..Len(files) : files[k].name = name
    THEN CHOOSE k \in 1..Len(files) :
             /\ files[k].name = name
             /\ \A j \in 1..(k - 1) : files[j].name # name
    ELSE 0

\* `for remove_file in remove_files`: position(..).unwrap(), remove
RECURSIVE RemoveFiles(_, _)
RemoveFiles(files, remove_files) ==
    IF remove_files = <<>> THEN files
    ELSE RemoveFiles(RemoveAt(files, Position(files, Head(remove_files))),
                     Tail(remove_files))

remove_files_without_new_points(files) ==
    RemoveFiles(files,
        CheckTypes([map |-> EmptyMap, remove_files |-> <<>>], files, 1)
            \o OtherFiles(files))

RemoveFilesWithoutNewPoints ==
    /\ pc = "filter"
    /\ parsed_files' = remove_files_without_new_points(parsed_files)
    /\ hist' = [hist EXCEPT !.filtered = parsed_files']
    /\ pc' = "simplify"
    /\ file_idx' = 1
    /\ UNCHANGED <<env, next_path, out_files, panic_stage>>

----------------------------------------------------------------------------
(* remove_straight_line_points *)

\* a usize (64 bits) in 4 limbs of 16 bits, the highest first
Usize(n) == <<0, 0, n \div 65536, n % 65536>>

\* x > y for two usize
RECURSIVE UsizeGreater(_, _)
UsizeGreater(x, y) ==
    IF x = <<>> THEN FALSE
    ELSE IF Head(x) # Head(y) THEN Head(x) > Head(y)
    ELSE UsizeGreater(Tail(x), Tail(y))

\* coords.len() - 3 where the build does not check the overflow: modulo 2^64
WrappingSub3(len) ==
    IF len >= 3 THEN Usize(len - 3) ELSE <<65535, 65535, 65535, 65533 + len>>

\* the first point of the triple removed
RemoveMiddleFirst(coords, i) == RemoveAt(coords, i + 1)

\* Vec::remove(i + 1) of the loop body, i counted from 0
RemoveMiddle(coords, i) == RemoveAt(coords, i + 2)

\* `for i in 0..=last`, from index i (counted from 0) on
RECURSIVE StraightLoop(_, _, _)
StraightLoop(coords, i, last) ==
    IF UsizeGreater(Usize(i), last) THEN coords
    ELSE IF i + 2 >= Len(coords) THEN coords
    ELSE IF in_line(coords[i + 1], coords[i + 3], coords[i + 2])
    THEN StraightLoop(RemoveMiddle(coords, i), i + 1, last)
    ELSE StraightLoop(coords, i + 1, last)

\* the body of `for file in parsed_files` for one track, in the build `checks`
StraightFile(coords, checks) ==
    IF checks /\ Len(coords) < 3
    THEN [panicked |-> TRUE, coords |-> coords]
    ELSE [panicked |-> FALSE,
          coords |-> StraightLoop(coords, 0, WrappingSub3(Len(coords)))]

SimplifyFile ==
    /\ pc = "simplify"
    /\ file_idx <= Len(parsed_files)
    /\ LET r == StraightFile(parsed_files[file_idx].coords, overflow_checks)
       IN  IF r.panicked
           THEN /\ pc' = "panic"
                /\ panic_stage' = "simplify"
                /\ UNCHANGED <<parsed_files, file_idx>>
           ELSE /\ parsed_files' = [parsed_files EXCEPT ![file_idx].coords = r.coords]
                /\ file_idx' = file_idx + 1
                /\ UNCHANGED <<pc, panic_stage>>
    /\ UNCHANGED <<env, next_path, out_files, hist>>

SimplifyReturn ==
    /\ pc = "simplify"
    /\ file_idx > Len(parsed_files)
    /\ pc' = "output"
    /\ file_idx' = 1
    /\ hist' = [hist EXCEPT !.simplified = parsed_files]
    /\ UNCHANGED <<env, next_path, parsed_files, out_files,
                   panic_stage>>

----------------------------------------------------------------------------
(* output_result_files *)

\* one write_all of the loop over the coordinates: "[lat,lng]", then ","
\* unless the coordinate equals the last one of the track
CoordStr(coord, last) ==
    [lat |-> to_string(coord.lat), lng |-> to_string(coord.lng),
     comma |-> ~LatLngEq(coord, last)]

\* `for coord in &file.coords`, from the k-th coordinate on
RECURSIVE CoordWrites(_, _)
CoordWrites(coords, k) ==
    IF k > Len(coords) THEN <<>>
    ELSE <<CoordStr(coords[k], coords[Len(coords)])>> \o CoordWrites(coords, k + 1)

\* fs::create_dir_all(&options.output_path_str).unwrap(): the file system
\* creates the directory or refuses
CreateOutputDir ==
    /\ pc = "output"
    /\ \E ok \in BOOLEAN :
           IF ok
           THEN pc' = "write" /\ UNCHANGED panic_stage
           ELSE pc' = "panic" /\ panic_stage' = "write"
    /\ UNCHANGED <<env, next_path, parsed_files, file_idx, out_files, hist>>

\* one file: create_dir_all, File::create and every write_all are
\* unwrapped, the file system carries them all out or refuses one
WriteFile ==
    /\ pc = "write"
    /\ file_idx <= Len(parsed_files)
    /\ \E ok \in BOOLEAN :
           IF ok
           THEN /\ LET file == parsed_files[file_idx]
                   IN  out_files' = Append(out_files,
                           [subdir |-> file.trk_type, var_name |-> file.name,
                            writes |-> CoordWrites(file.coords, 1)])
                /\ file_idx' = file_idx + 1
                /\ UNCHANGED <<pc, panic_stage>>
           ELSE /\ pc' = "panic"
                /\ panic_stage' = "write"
                /\ UNCHANGED <<out_files, file_idx>>
    /\ UNCHANGED <<env, next_path, parsed_files, hist>>

WriteReturn ==
    /\ pc = "write"
    /\ file_idx > Len(parsed_files)
    /\ pc' = "done"
    /\ UNCHANGED <<env, next_path, parsed_files, file_idx,
                   out_files, panic_stage, hist>>

----------------------------------------------------------------------------
(* main, and the inputs *)

Next ==
    \/ ReadDir
    \/ ReadFile
    \/ ReadFilesReturn
    \/ RoundValues
    \/ RemoveDuplicates
    \/ RemoveFilesWithoutNewPoints
    \/ SimplifyFile
    \/ SimplifyReturn
    \/ CreateOutputDir
    \/ WriteFile
    \/ WriteReturn

\* the state when main() starts, for the directories of Dirs
Start(Dirs) ==
    /\ \/ read_dir_ok = TRUE /\ dir \in Dirs
       \/ read_dir_ok = FALSE /\ dir = <<>>
    /\ overflow_checks \in BOOLEAN
    /\ pc = "start"
    /\ next_path = 1
    /\ parsed_files = <<>>
    /\ file_idx = 0
    /\ out_files = <<>>
    /\ panic_stage = ""
    /\ hist = [loaded |-> <<>>, rounded |-> <<>>, deduped |-> <<>>,
               filtered |-> <<>>, simplified |-> <<>>]

\* sequences over S of length at most n
SeqsUpTo(S, n) == UNION {[1..k -> S] : k \in 0..n}

Num1(mag) == [kind |-> "num", val |-> F(FALSE, mag)]

NumPt(lat, lng) == [lat |-> [kind |-> "num", val |-> lat],
                    lon |-> [kind |-> "num", val |-> lng]]

\* The names read_files gives the entries.  fullpath is the lossy
\* path.display().to_string() and the file is read through it: an entry
\* whose path is not UTF-8 gets the name, and the content, of the entry its
\* display names.  names[k] = k: the k-th entry has a name of its own;
\* names[k] = j < k: it shares the name of the j-th entry.
NameChoices(entries) ==
    {names \in [DOMAIN entries -> DOMAIN entries] :
        \A k \in DOMAIN entries :
            /\ names[k] <= k
            /\ names[names[k]] = names[k]
            /\ entries[names[k]] = entries[k]}

\* a directory: the entries with their names
Named(entries, names) ==
    [k \in DOMAIN entries |->
        [name |-> names[k], shape |-> entries[k].shape,
         trk_type |-> entries[k].trk_type, pts |-> entries[k].pts]]

\* the directories of at most n entries of E
DirsOf(E, n) ==
    UNION {{Named(entries, names) : names \in NameChoices(entries)} :
              entries \in SeqsUpTo(E, n)}

OkFile(t, pts) == [shape |-> "ok", trk_type |-> t, pts |-> pts]

\* one walking track over a few points: three of one longitude, the middle
\* one a half at 6 digits, and three that are on one line as decimals
GridPoints ==
    {NumPt(F(FALSE, 0), F(FALSE, 10)),
     NumPt(F(FALSE, 5), F(FALSE, 10)),
     NumPt(F(FALSE, 20), F(FALSE, 10)),
     NumPt(F(FALSE, 10), F(FALSE, 20)),
     NumPt(F(FALSE, 30), F(FALSE, 40))}

SimplifyDirs ==
    {Named(<<OkFile("walking", pts)>>, <<1>>) : pts \in SeqsUpTo(GridPoints, MaxPts)}

InitSimplify == Start(SimplifyDirs)

SpecSimplify == InitSimplify /\ [][Next]_vars

\* up to MaxFiles tracks of short point lists whose coarse keys collide:
\* 0.00001 rounds to the 4-digit latitude 0, -0.00001 to -0, 0.0001 to
\* itself, and 0.00005 is a half, which the f64 product takes up to 0.0001
FilterPointLists ==
    {<<>>,
     <<NumPt(F(FALSE, 100), F(FALSE, 0))>>,
     <<NumPt(F(FALSE, 500), F(FALSE, 0)), NumPt(F(FALSE, 100), F(FALSE, 1000))>>,
     <<NumPt(F(TRUE, 100), F(FALSE, 0)), NumPt(F(FALSE, 1000), F(FALSE, 0))>>}

\* the lists of FilterPointLists of the given lengths
ListsOf(lengths) == {pts \in FilterPointLists : Len(pts) \in lengths}

FilterEntries ==
    {OkFile("walking", pts) : pts \in FilterPointLists}
        \cup {OkFile("hiking", pts) : pts \in ListsOf({1})}
        \cup {OkFile("running", pts) : pts \in ListsOf({0, 1})}
        \cup {OkFile("swimming", pts) : pts \in ListsOf({1})}

FilterDirs == DirsOf(FilterEntries, MaxFiles)

InitFilter == Start(FilterDirs)

SpecFilter == InitFilter /\ [][Next]_vars

\* up to MaxLoadFiles files of every shape the loader tells apart
Absent == [kind |-> "absent", val |-> F(FALSE, 0)]

Bad == [kind |-> "bad", val |-> F(FALSE, 0)]

LoadPointLists ==
    {<<>>,
     <<NumPt(F(FALSE, 0), F(FALSE, 0))>>,
     <<NumPt(F(FALSE, 10000000), F(FALSE, 20000000))>>,
     <<NumPt(F(FALSE, 0), F(FALSE, 0)), NumPt(F(FALSE, 10000000), F(FALSE, 20000000))>>,
     <<[lat |-> Num1(10000000), lon |-> Absent]>>,
     <<[lat |-> Bad, lon |-> Num1(20000000)]>>}

LoadEntries ==
    {OkFile(t, pts) : t \in {"walking", "hiking"}, pts \in LoadPointLists}
        \cup {[shape |-> sh, trk_type |-> "", pts |-> <<>>] :
                 sh \in {"entry_error", "not_gpx", "unreadable", "bad_xml",
                         "no_trk", "no_type", "no_type_text", "no_trkseg"}}

LoadDirs == DirsOf(LoadEntries, MaxLoadFiles)

Init == Start(LoadDirs)

Spec == Init /\ [][Next]_vars

----------------------------------------------------------------------------
(* Properties of the simplification stage *)

\* the files remove_straight_line_points has finished with
Simplified ==
    IF pc \in {"output", "write", "done"} \/ (pc = "panic" /\ panic_stage = "write")
    THEN 1..Len(parsed_files)
    ELSE IF pc = "simplify" \/ (pc = "panic" /\ panic_stage = "simplify")
    THEN 1..(file_idx - 1)
    ELSE {}

\* the points of file f when the stage began
Before(f) == hist.filtered[f].coords

After(f) == parsed_files[f].coords

\* a is b with some elements left out
RECURSIVE IsSubseq(_, _)
IsSubseq(a, b) ==
    IF a = <<>> THEN TRUE
    ELSE IF b = <<>> THEN FALSE
    ELSE IF Head(a) = Head(b) THEN IsSubseq(Tail(a), Tail(b))
    ELSE IsSubseq(a, Tail(b))

\* the scan the specification describes: the index advances only when the
\* test at the index fails
RECURSIVE ReferenceScan(_, _)
ReferenceScan(points, i) ==
    IF i + 2 >= Len(points) THEN points
    ELSE IF in_line(points[i + 1], points[i + 3], points[i + 2])
    THEN ReferenceScan(RemoveAt(points, i + 2), i)
    ELSE ReferenceScan(points, i + 1)

\* C1: the result of the stage, for every track it has finished with, is the
\* result of the scan that tests the same index again after a removal.
C1_RecheckSameIndex ==
    \A f \in Simplified : After(f) = ReferenceScan(Before(f), 0)

\* C2: simplification is idempotent: applied to its own output, whenever
\* that second application completes, it returns the output unchanged.
C2_Idempotent ==
    \A f \in Simplified :
        LET again == StraightFile(After(f), overflow_checks)
        IN  ~again.panicked => again.coords = After(f)

\* C3: a track of fewer than 3 points is left unchanged and the stage
\* completes normally for it.
C3_ShortTracksUntouched ==
    /\ \A f \in Simplified : Len(Before(f)) < 3 => After(f) = Before(f)
    /\ ~(/\ pc = "panic"
         /\ panic_stage = "simplify"
         /\ Len(parsed_files[file_idx].coords) < 3)

\* C8: the stage keeps the first and the last point of every track of at
\* least one point, removes interior points only, and never lengthens a track.
C8_EndpointsKept ==
    \A f \in Simplified :
        LET in == Before(f)
            out == After(f)
        IN  Len(in) >= 1 =>
                /\ Len(out) >= 1
                /\ out[1] = in[1]
                /\ out[Len(out)] = in[Len(in)]
                /\ Len(out) <= Len(in)
                /\ Len(in) >= 2 =>
                       /\ Len(out) >= 2
                       /\ IsSubseq(SubSeq(out, 2, Len(out) - 1),
                                   SubSeq(in, 2, Len(in) - 1))

\* a track the stage has shortened
C8_Witness ==
    \E f \in Simplified : Len(Before(f)) >= 3 /\ Len(After(f)) < Len(Before(f))

----------------------------------------------------------------------------
(* Properties of the writer *)

\* C7: the writes of a track are its pairs in order, each followed by a
\* comma except the last, which is followed by none; a track of no point
\* gets no write.
C7_CommaAfterAllButLast ==
    \A j \in 1..Len(out_files) :
        LET coords == parsed_files[j].coords
            writes == out_files[j].writes
        IN  /\ Len(writes) = Len(coords)
            /\ \A k \in 1..Len(writes) :
                   /\ writes[k].lat = to_string(coords[k].lat)
                   /\ writes[k].lng = to_string(coords[k].lng)
                   /\ writes[k].comma = (k < Len(writes))

----------------------------------------------------------------------------
(* Properties of the whole pipeline *)

\* how far main() has come: the number of stages that have returned
Rank ==
    CASE pc = "start" -> 0
      [] pc = "read" -> 0
      [] pc = "round" -> 1
      [] pc = "dedup" -> 2
      [] pc = "filter" -> 3
      [] pc = "simplify" -> 4
      [] pc = "output" -> 5
      [] pc = "write" -> 5
      [] pc = "done" -> 5
      [] pc = "panic" -> IF panic_stage = "read" THEN 0
                         ELSE IF panic_stage = "simplify" THEN 4 ELSE 5

\* the same tracks, in the same order
SameTracks(a, b) ==
    /\ Len(a) = Len(b)
    /\ \A k \in 1..Len(a) : a[k].name = b[k].name /\ a[k].trk_type = b[k].trk_type

\* b is a with the sign kept and the magnitude moved by at most half a unit
\* of the 6th digit
RoundedFrom(a, b) ==
    /\ b.neg = a.neg
    /\ 2 * (IF a.mag > b.mag THEN a.mag - b.mag ELSE b.mag - a.mag)
           <= Pow10(FracDigits - 6)

\* C10: after loading, Round keeps every track's length and order and only
\* rounds the values; Dedup, the Novelty Filter and Simplify leave of every
\* surviving track an order-preserving subsequence of what it was; the
\* Writer changes nothing.
C10_OnlyShrunkOrRounded ==
    /\ Rank >= 2 =>
           /\ SameTracks(hist.rounded, hist.loaded)
           /\ \A f \in 1..Len(hist.rounded) :
                  LET a == hist.loaded[f].coords
                      b == hist.rounded[f].coords
                  IN  /\ Len(b) = Len(a)
                      /\ \A k \in 1..Len(a) :
                             /\ RoundedFrom(a[k].lat, b[k].lat)
                             /\ RoundedFrom(a[k].lng, b[k].lng)
    /\ Rank >= 3 =>
           /\ SameTracks(hist.deduped, hist.rounded)
           /\ \A f \in 1..Len(hist.deduped) :
                  IsSubseq(hist.deduped[f].coords, hist.rounded[f].coords)
    /\ Rank >= 4 =>
           /\ IsSubseq(hist.filtered, hist.deduped)
           /\ SameTracks(parsed_files, hist.filtered)
           /\ \A f \in 1..Len(parsed_files) :
                  IsSubseq(parsed_files[f].coords, hist.filtered[f].coords)
    /\ Rank >= 5 => parsed_files = hist.simplified

\* a run in which Round changed a value, Dedup dropped a point and Simplify
\* dropped a point of the same track
C10_Witness ==
    /\ pc = "done"
    /\ Len(parsed_files) = 1
    /\ hist.rounded # hist.loaded
    /\ Len(hist.deduped[1].coords) < Len(hist.rounded[1].coords)
    /\ Len(parsed_files[1].coords) < Len(hist.filtered[1].coords)

----------------------------------------------------------------------------
(* Properties of the novelty filter *)

\* the coarse key of a point: both values rounded to 4 digits, as printed
\* the coarse key of a point: lat and lng each rounded to 4 digits
Key(p) == <<Num(round_val(p.lat, 4)), Num(round_val(p.lng, 4))>>

Keys(coords) == {Key(coords[k]) : k \in 1..Len(coords)}

Names(files) == {files[k].name : k \in 1..Len(files)}

\* the keys the tracks before the f-th track of files have claimed
Claimed(files, f) == UNION {Keys(files[h].coords) : h \in 1..(f - 1)}

\* the tracks of files with a point whose key no earlier track has claimed,
\* in order, from the f-th track on
RECURSIVE NovelTracks(_, _)
NovelTracks(files, f) ==
    IF f > Len(files) THEN <<>>
    ELSE IF Keys(files[f].coords) \ Claimed(files, f) # {}
    THEN <<files[f]>> \o NovelTracks(files, f + 1)
    ELSE NovelTracks(files, f + 1)

\* the filter has just returned (hist.deduped and hist.filtered, what it
\* was given and what it returned, never change afterwards)
FilterReturned == pc = "simplify" /\ file_idx = 1

\* the tracks of type t, in order
OfType(files, t) ==
    LET IsT(file) == file.trk_type = t
    IN  SelectSeq(files, IsT)

\* C4: the tracks of a known type that the filter retains are, in the order
\* of the input, exactly those with a point whose coarse key no earlier
\* track of that type has claimed; a track of no point is dropped.
C4_RetainedIffNovel ==
    FilterReturned =>
        \A t \in KnownTypes :
            OfType(hist.filtered, t) = NovelTracks(OfType(hist.deduped, t), 1)

\* C9: the tracks of a known type the filter retains are those it retains
\* when given the tracks of that type alone, and a file labelled hiking is
\* loaded as a walking track.
C9_PartitionedByType ==
    /\ Rank >= 1 =>
           \A f \in 1..Len(hist.loaded) :
               \A k \in 1..Len(dir) :
                   (dir[k].name = hist.loaded[f].name /\ dir[k].trk_type = "hiking")
                       => hist.loaded[f].trk_type = "walking"
    /\ FilterReturned =>
           \A t \in KnownTypes :
               OfType(hist.filtered, t)
                   = remove_files_without_new_points(OfType(hist.deduped, t))

\* two retained tracks of different types over the same points, and a
\* hiking file dropped because a walking file had claimed its points
C9_Witness ==
    /\ Rank >= 4
    /\ \E f, g \in 1..Len(hist.filtered) :
           /\ hist.filtered[f].trk_type # hist.filtered[g].trk_type
           /\ hist.filtered[f].coords # <<>>
           /\ hist.filtered[f].coords = hist.filtered[g].coords
    /\ \E k \in 1..Len(dir) :
           /\ dir[k].trk_type = "hiking"
           /\ dir[k].pts # <<>>
           /\ dir[k].name \notin Names(hist.filtered)

----------------------------------------------------------------------------
(* Properties of the loader *)

IsZero(p) == Num(p.lat) = 0 /\ Num(p.lng) = 0

\* C5: no loaded track holds the point (0,0), and a file whose only point
\* is (0,0) does not survive the novelty filter.
C5_ZeroPointSkipped ==
    /\ Rank >= 1 =>
           \A f \in 1..Len(hist.loaded) :
               \A k \in 1..Len(hist.loaded[f].coords) :
                   ~IsZero(hist.loaded[f].coords[k])
    /\ Rank >= 4 =>
           \A k \in 1..Len(dir) :
               (/\ dir[k].shape = "ok"
                /\ Len(dir[k].pts) = 1
                /\ HasBoth(dir[k].pts[1])
                /\ ~ParsePanics(dir[k].pts)
                /\ IsZero(ToLatLng(dir[k].pts[1])))
                   => dir[k].name \notin Names(hist.filtered)

\* the files the loader is to load: the .gpx files that can be read, parse
\* and hold a trk with a type and a trkseg
Loadable(e) ==
    e.shape \notin {"entry_error", "not_gpx", "unreadable", "bad_xml", "no_trk",
                    "no_type", "no_type_text", "no_trkseg"}

\* C6: a file without trk, type or trkseg does not stop the loader, and
\* once the loader has returned, the loaded tracks are the loadable files,
\* in order.
C6_FileFailureSkipsFile ==
    /\ ~(/\ pc = "panic"
         /\ panic_stage = "read"
         /\ read_dir_ok
         /\ dir[next_path].shape \in {"no_trk", "no_type", "no_type_text",
                                      "no_trkseg"})
    /\ Rank >= 1 =>
           FileNames(hist.loaded) = FileNames(SelectSeq(dir, Loadable))

====
